---- MODULE Spec2Model ----
(***************************************************************************)
(* BrevDoctor: GPU selection, the provisioning gateway with its token      *)
(* lifecycle, and the provisioning retry loop of the analyze route.        *)
(*                                                                         *)
(*   src/unnamed/part_002        (lib/brev-api: catalog, token, gateway)   *)
(*   src/lib/broker.ts           (findBestInstance, decideGpuRetry)        *)
(*   src/app/api/analyze/route.ts (POST: provisioning loop)                *)
(*                                                                         *)
(* Prices are kept in cents so that they are integers; the order of two    *)
(* prices is the order of their cent values.                               *)
(***************************************************************************)
EXTENDS Integers, Sequences, FiniteSets, TLC

(***************************************************************************)
(* Bounds of the model.                                                    *)
(***************************************************************************)
\* The clock runs over 0..MaxNow (unix seconds).
MaxNow == 1
\* Deepest recursive re-entry of attemptGpuProvisioning that is explored.
MaxDepth == 2
\* Longest inventory handed to findBestInstance.
MaxInventory == 3
\* Calls of getGpuByName that are recorded.
MaxLookups == 3
\* Runs of POST /api/analyze that are in progress at the same time.
NumRuns == 2

(***************************************************************************)
(* GPU catalog                                                             *)
(***************************************************************************)
Inst(n, v, c, a, p) == [name |-> n, vram |-> v, count |-> c, arch |-> a, price |-> p]

BREV_GPU_CATALOG ==
  << Inst("B300", 192, 1, "Blackwell", 0),
     Inst("B200", 192, 1, "Blackwell", 0),
     Inst("H200", 141, 1, "Hopper", 450),
     Inst("H100", 80, 1, "Hopper", 349),
     Inst("A100", 80, 1, "Ampere", 249),
     Inst("A100-40GB", 40, 1, "Ampere", 189),
     Inst("A40", 48, 1, "Ampere", 128),
     Inst("A10", 24, 1, "Ampere", 75),
     Inst("A10G", 24, 1, "Ampere", 75),
     Inst("A16", 16, 1, "Ampere", 50),
     Inst("L40s", 48, 1, "Ada", 150),
     Inst("L40", 48, 1, "Ada", 140),
     Inst("L4", 24, 1, "Ada", 58),
     Inst("RTX Pro 6000", 48, 1, "Ada", 120),
     Inst("RTX 6000 Ada", 48, 1, "Ada", 120),
     Inst("RTX 4000 Ada", 20, 1, "Ada", 55),
     Inst("A6000", 48, 1, "Ampere", 80),
     Inst("A5000", 24, 1, "Ampere", 50),
     Inst("A4000", 16, 1, "Ampere", 35),
     Inst("T4", 16, 1, "Turing", 35),
     Inst("V100", 32, 1, "Volta", 250),
     Inst("P4", 8, 1, "Pascal", 25),
     Inst("M60", 8, 1, "Maxwell", 30) >>

\* The absent catalog entry (undefined / null).
NullInstance == Inst("", 0, 0, "", 0)

\* String.prototype.toLowerCase on the names that occur: the table lists the
\* names that hold an upper-case letter, every other string is unchanged.
LowerCaseTable ==
  [ s \in { "B300", "B200", "H200", "H100", "A100", "A100-40GB", "A40", "A10",
            "A10G", "A16", "L40s", "L40", "L4", "RTX Pro 6000", "RTX 6000 Ada",
            "RTX 4000 Ada", "A6000", "A5000", "A4000", "T4", "V100", "P4",
            "M60", "GTX 1080" } |->
      CASE s = "B300" -> "b300" [] s = "B200" -> "b200" [] s = "H200" -> "h200"
        [] s = "H100" -> "h100" [] s = "A100" -> "a100"
        [] s = "A100-40GB" -> "a100-40gb" [] s = "A40" -> "a40"
        [] s = "A10" -> "a10" [] s = "A10G" -> "a10g" [] s = "A16" -> "a16"
        [] s = "L40s" -> "l40s" [] s = "L40" -> "l40" [] s = "L4" -> "l4"
        [] s = "RTX Pro 6000" -> "rtx pro 6000"
        [] s = "RTX 6000 Ada" -> "rtx 6000 ada"
        [] s = "RTX 4000 Ada" -> "rtx 4000 ada"
        [] s = "A6000" -> "a6000" [] s = "A5000" -> "a5000"
        [] s = "A4000" -> "a4000" [] s = "T4" -> "t4" [] s = "V100" -> "v100"
        [] s = "P4" -> "p4" [] s = "M60" -> "m60"
        [] s = "GTX 1080" -> "gtx 1080" ]

\* The same for the architecture names.
LowerCaseArchTable ==
  [ s \in { "Blackwell", "Hopper", "Ada", "Ampere", "Turing", "Volta",
            "Pascal", "Maxwell" } |->
      CASE s = "Blackwell" -> "blackwell" [] s = "Hopper" -> "hopper"
        [] s = "Ada" -> "ada" [] s = "Ampere" -> "ampere"
        [] s = "Turing" -> "turing" [] s = "Volta" -> "volta"
        [] s = "Pascal" -> "pascal" [] s = "Maxwell" -> "maxwell" ]

\* The same for the phrases of the CLI's error output that hold an
\* upper-case letter.
LowerCasePhraseTable ==
  [ s \in { "Out Of Stock", "Invalid GPU" } |->
      CASE s = "Out Of Stock" -> "out of stock"
        [] s = "Invalid GPU" -> "invalid gpu" ]

ToLowerCase(s) ==
  IF s \in DOMAIN LowerCaseTable THEN LowerCaseTable[s]
  ELSE IF s \in DOMAIN LowerCaseArchTable THEN LowerCaseArchTable[s]
  ELSE IF s \in DOMAIN LowerCasePhraseTable THEN LowerCasePhraseTable[s]
  ELSE s

\* Array.prototype.find over the array cat: the first entry whose
\* lower-cased name matches.
findInCatalog(cat, name) ==
  LET hits == { i \in 1..Len(cat) :
                  ToLowerCase(cat[i].name) = ToLowerCase(name) }
  IN  IF hits = {} THEN NullInstance
      ELSE cat[CHOOSE i \in hits : \A j \in hits : i <= j]

getGpuByName(name) == findInCatalog(BREV_GPU_CATALOG, name)

\* The sort callback of getGpusByMinVram: (a, b) => a.vram - b.vram.
RECURSIVE insertByVram(_, _)
insertByVram(x, sorted) ==
  IF sorted = << >> THEN << x >>
  ELSE IF Head(sorted).vram - x.vram <= 0
         THEN << Head(sorted) >> \o insertByVram(x, Tail(sorted))
         ELSE << x >> \o sorted

\* Array.prototype.sort with that callback (the sort is stable).
RECURSIVE sortByVram(_)
sortByVram(arr) ==
  IF arr = << >> THEN << >>
  ELSE insertByVram(arr[Len(arr)], sortByVram(SubSeq(arr, 1, Len(arr) - 1)))

\* The catalog is sorted first and filtered afterwards: sort reorders its
\* receiver, which is then the catalog itself.
getGpusByMinVram_SortsCatalog(cat, minVram) ==
  [returned |-> SelectSeq(sortByVram(cat), LAMBDA gpu : gpu.vram >= minVram),
   catalog |-> sortByVram(cat)]

\* getGpusByMinVram on the array cat: the array it returns and the array
\* cat is afterwards.  filter returns a new array and sort reorders its
\* receiver in place, which here is the array filter returned.
getGpusByMinVram(cat, minVram) ==
  [returned |-> sortByVram(SelectSeq(cat, LAMBDA gpu : gpu.vram >= minVram)),
   catalog |-> cat]

\* getGpusByArchitecture on the array cat: filter only.
getGpusByArchitecture(cat, arch) ==
  SelectSeq(cat, LAMBDA gpu : ToLowerCase(gpu.arch) = ToLowerCase(arch))

(***************************************************************************)
(* Rule-based selection: findBestInstance                                  *)
(***************************************************************************)
AllArchs ==
  { "Blackwell", "Hopper", "Ada", "Ampere", "Turing", "Volta", "Pascal",
    "Maxwell" }

\* Variant: an Ampere card stands in for a Hopper request.
ARCH_COMPATIBILITY_Downgrade(requiredArch) ==
  CASE requiredArch = "Any" -> AllArchs
    [] requiredArch = "Ampere" -> { "Ampere", "Hopper", "Ada", "Blackwell" }
    [] requiredArch = "Hopper" -> { "Hopper", "Blackwell", "Ampere" }
    [] requiredArch = "Ada" -> { "Ada", "Hopper", "Blackwell" }
    [] OTHER -> AllArchs

\* ARCH_COMPATIBILITY[requiredArch] || ARCH_COMPATIBILITY.Any
ARCH_COMPATIBILITY(requiredArch) ==
  CASE requiredArch = "Any" -> AllArchs
    [] requiredArch = "Ampere" -> { "Ampere", "Hopper", "Ada", "Blackwell" }
    [] requiredArch = "Hopper" -> { "Hopper", "Blackwell" }
    [] requiredArch = "Ada" -> { "Ada", "Hopper", "Blackwell" }
    [] OTHER -> AllArchs

\* The filter callback of lines 232-238.
isSuitable(needs_, instance) ==
  LET totalVram == instance.vram * instance.count
  IN  /\ ~(totalVram < needs_.estimated_vram_gb)
      /\ ~(needs_.requires_multi_gpu /\ instance.count < 2)
      /\ instance.arch \in
           ARCH_COMPATIBILITY(needs_.recommended_gpu_architecture)

\* The callback compares the prices only.
compareInstances_PriceOnly(a, b) == a.price - b.price

\* The sort callback of lines 239-242.
compareInstances(a, b) ==
  IF a.price # b.price THEN a.price - b.price
  ELSE a.vram * a.count - b.vram * b.count

\* Array.prototype.filter
RECURSIVE filterSuitable(_, _)
filterSuitable(needs_, inv) ==
  IF inv = << >> THEN << >>
  ELSE IF isSuitable(needs_, Head(inv))
         THEN << Head(inv) >> \o filterSuitable(needs_, Tail(inv))
         ELSE filterSuitable(needs_, Tail(inv))

\* x goes behind every entry that does not compare greater than it.
RECURSIVE insertSorted(_, _)
insertSorted(x, sorted) ==
  IF sorted = << >> THEN << x >>
  ELSE IF compareInstances(Head(sorted), x) <= 0
         THEN << Head(sorted) >> \o insertSorted(x, Tail(sorted))
         ELSE << x >> \o sorted

\* Array.prototype.sort with the callback above (the sort is stable).
RECURSIVE sortInstances(_)
sortInstances(inv) ==
  IF inv = << >> THEN << >>
  ELSE insertSorted(inv[Len(inv)], sortInstances(SubSeq(inv, 1, Len(inv) - 1)))

findBestInstance(needs_, inv) ==
  LET suitable == sortInstances(filterSuitable(needs_, inv))
  IN  [best |-> IF Len(suitable) >= 1 THEN suitable[1] ELSE NullInstance,
       second_best |-> IF Len(suitable) >= 2 THEN suitable[2]
                       ELSE NullInstance]

(***************************************************************************)
(* Tokens.  A token is [id, exp]: id tells tokens apart, exp is the exp    *)
(* claim of the decoded JWT payload (unix seconds), NoExp when the token   *)
(* does not decode or carries no exp.  NullToken is the absent token.      *)
(***************************************************************************)
NoExp == -1

Tok(i, e) == [id |-> i, exp |-> e]

NullToken == Tok("null", NoExp)

\* The exp claim of the payload, NoExp when decoding fails.
decodeJWT(token) == token.exp

\* 5 * 60
fiveMinutes == 300

\* Variant: expired only when the expiry has passed (no 5 minute margin).
isTokenExpired_NoMargin(token, t) ==
  LET exp == decodeJWT(token)
  IN  IF exp = NoExp \/ exp = 0 THEN TRUE
      ELSE exp < t

isTokenExpired(token, t) ==
  LET exp == decodeJWT(token)
  IN  IF exp = NoExp \/ exp = 0 THEN TRUE
      ELSE exp < t + fiveMinutes

\* The credentials file is [kind, tok]: kind is "absent", "corrupt"
\* (unreadable or not JSON), "empty" (JSON without access_token) or "token".
File(k, t) == [kind |-> k, tok |-> t]

readTokenFromCredentials(file) ==
  IF file.kind = "token" THEN file.tok ELSE NullToken

(***************************************************************************)
(* Error classification.  The text `${message} ${stderr}` is represented   *)
(* by the set of phrases that occur in it, in the letter case they were    *)
(* written in, so that text.includes(k) is k \in text.                     *)
(***************************************************************************)
\* The text is classified as it was thrown.
combinedError_AsThrown(text) == text

\* Line 366: `${errorMessage} ${stderr}`.toLowerCase()
combinedError(text) == { ToLowerCase(phrase) : phrase \in text }

OutOfStockKeywords ==
  { "out of stock", "no capacity", "unavailable", "insufficient",
    "not available", "no instances available", "quota exceeded" }

AuthKeywords == { "unauthorized", "authentication", "invalid token", "expired" }

ConfigKeywords == { "invalid gpu", "unknown gpu", "not found" }

includes(text, k) == k \in text

\* The auth keywords are tested before the out-of-stock keywords.
classifyError_AuthFirst(text) ==
  IF \E k \in AuthKeywords : includes(text, k) THEN "auth_error"
  ELSE IF \E k \in OutOfStockKeywords : includes(text, k) THEN "out_of_stock"
  ELSE IF \E k \in ConfigKeywords : includes(text, k) THEN "invalid_config"
  ELSE "unknown"

classifyError(text) ==
  IF \E k \in OutOfStockKeywords : includes(text, k) THEN "out_of_stock"
  ELSE IF \E k \in AuthKeywords : includes(text, k) THEN "auth_error"
  ELSE IF \E k \in ConfigKeywords : includes(text, k) THEN "invalid_config"
  ELSE "unknown"

\* ProvisioningResult: errorType is "none" when absent; suggestion and
\* workspaceName tell whether the field is present.
Res(s, e, g) ==
  [success |-> s, errorType |-> e, suggestion |-> g, workspaceName |-> FALSE]

\* Line 350: stdout.includes("RUNNING") || stdout.includes("running"),
\* stdout being the set of the words that occur in it.
hasRunningMarker(out) == "RUNNING" \in out \/ "running" \in out

\* Output without the marker is a failure.
createResult_RunningOnly(out) ==
  IF hasRunningMarker(out)
    THEN [success |-> TRUE, errorType |-> "none", suggestion |-> FALSE,
          workspaceName |-> TRUE]
    ELSE Res(FALSE, "unknown", TRUE)

\* Lines 349-361: what is returned when `brev create` did not throw.
createResult(out) ==
  [success |-> TRUE, errorType |-> "none",
   suggestion |-> ~hasRunningMarker(out), workspaceName |-> TRUE]

NoResult == Res(FALSE, "none", FALSE)

\* Variant: the error of the refresh command is passed on.
refreshBrevTokenOnError_Rethrow == "rethrow"

\* What the catch clause of refreshBrevToken does with an error.
refreshBrevTokenOnError == "return_null"

(***************************************************************************)
(* Inputs of the environment                                               *)
(***************************************************************************)
\* Failure texts of the external CLI commands.
ErrorTexts ==
  { {"Out Of Stock"}, {"unauthorized"}, {"Invalid GPU"}, {},
    {"not available", "expired"}, {"invalid token", "not found"} }

\* Outcomes of `brev login`.
LoginOutcomes ==
  { [ok |-> TRUE, stdout |-> {}, text |-> {}] }
    \cup { [ok |-> FALSE, stdout |-> {}, text |-> t] : t \in ErrorTexts }

\* Outcomes of `brev create`: ok with or without a running marker in stdout.
CreateOutcomes ==
  { [ok |-> TRUE, stdout |-> o, text |-> {}] :
      o \in { {"RUNNING"}, {"running"}, {"created"} } }
    \cup { [ok |-> FALSE, stdout |-> {}, text |-> t] : t \in ErrorTexts }

\* Lifetime of a token the backend issues on `brev refresh`.
TokenTTL == 3600

\* What `brev refresh` may leave in the credentials file at time t when it
\* exits with success: a newly issued token, or a token that expires in
\* exactly five minutes (and is within the margin once the clock has
\* advanced), besides leaving the file as it was.
RefreshWrites(t) ==
  { File("token", Tok("fresh", t + TokenTTL)),
    File("token", Tok("edge", t + fiveMinutes)) }

\* The process-level variable BREV_TOKEN when the process starts.
InitialEnvTokens ==
  { NullToken, Tok("env", TokenTTL), Tok("env", fiveMinutes),
    Tok("env", fiveMinutes - 1) }

\* The credentials file when the process starts.
InitialFiles ==
  { File("corrupt", NullToken), File("token", Tok("file", TokenTTL)) }

\* The requirement record of the Specialist (the fields the selection reads).
Needs(v, a, m) ==
  [estimated_vram_gb |-> v, recommended_gpu_architecture |-> a,
   requires_multi_gpu |-> m]

RunNeeds == { Needs(40, "Hopper", FALSE) }

\* Requirement records handed to findBestInstance.  estimated_vram_gb is
\* z.number() in SpecialistOutputSchema, so 0 passes the schema.
SelectNeeds ==
  { Needs(v, a, m) : v \in { 0, 22, 48, 170 },
                     a \in { "Any", "Ampere", "Hopper", "Ada" },
                     m \in BOOLEAN }

\* Instances the inventories are made of: catalog entries and multi-GPU
\* entries of the kind the inventory lists.
InstancePool ==
  { Inst("B200", 192, 1, "Blackwell", 0),
    Inst("H100", 80, 1, "Hopper", 349),
    Inst("A100", 80, 1, "Ampere", 249),
    Inst("A10G", 24, 1, "Ampere", 75),
    Inst("L4", 24, 1, "Ada", 58),
    Inst("L4x2", 24, 2, "Ada", 116),
    Inst("L40", 48, 1, "Ada", 140),
    Inst("T4", 16, 1, "Turing", 35),
    Inst("T4x4", 16, 4, "Turing", 140) }

SeqsUpTo(S, n) == UNION { [1..k -> S] : k \in 0..n }

Inventories == SeqsUpTo(InstancePool, MaxInventory) \cup { BREV_GPU_CATALOG }

\* The attemptProvisioning field of the request body.
RequestFlags == { "absent", "true", "false" }

\* Line 22: const { ..., attemptProvisioning = false } = await req.json()
attemptProvisioningOf(flag) == IF flag = "absent" THEN FALSE ELSE flag = "true"

\* The Broker's answer: recommended_gpu and gpu_count.
BrokerResults ==
  { [recommended_gpu |-> "H100", gpu_count |-> 1],
    [recommended_gpu |-> "l4", gpu_count |-> 2],
    [recommended_gpu |-> "GTX 1080", gpu_count |-> 1] }

\* The answers of the retry selector; "" and 0 stand for an absent field
\* (they are as falsy as undefined in the tests the loop applies).
RetryDecisions ==
  [ should_retry : BOOLEAN,
    next_gpu : { "", "H100", "T4" },
    next_vram : { 0, 16 },
    next_gpu_count : { 0, 2 } ]

(***************************************************************************)
(* State                                                                   *)
(***************************************************************************)
VARIABLES
  \* Credential Manager (module state of lib/brev-api and its environment)
  envToken,       \* process.env.BREV_TOKEN, NullToken when unset
  credFile,       \* ~/.brev/credentials.json
  tokenCache,     \* tokenCache: [token, expiresAt], token = NullToken for null
  now,            \* Math.floor(Date.now() / 1000)
  \* attemptGpuProvisioning (one call with its recursive re-entries)
  gpc,            \* position in the call
  depth,          \* number of recursive re-entries so far
  token,          \* local `token` of getValidBrevToken
  tokenAt,        \* the time at which getValidBrevToken resolved `token`
  brevToken,      \* what getValidBrevToken returned
  freshToken,     \* what refreshBrevToken returned in the catch clause
  rcaller,        \* who called refreshBrevToken: "getValid" or "catch"
  errorText,      \* message and stderr of the error caught, as thrown
  stdout,         \* stdout of the `brev create` that returned
  result,         \* the ProvisioningResult returned
  loginCalls,     \* executions of `brev login` in this call
  createCalls,    \* executions of `brev create` in this call
  refreshCalls,   \* executions of `brev refresh` in this call
  gvRefreshes,    \* executions of `brev refresh` in this getValidBrevToken
  \* POST /api/analyze
  pc,
  attemptProvisioning,
  needs,
  brokerResult,
  best,
  attempt,
  currentGpu,
  currentVram,
  currentCount,
  provisioningAttempts,
  provisioningResult,
  selectorCalls,  \* invocations of decideGpuRetry
  events,         \* what send() has put on the stream, and the selector calls
  \* findBestInstance
  inventory,
  match,
  \* getValidBrevToken called by concurrent runs of one process
  calls,          \* per run: position, local `token`, value returned
  \* the module-level array BREV_GPU_CATALOG and the calls made on it
  catalog,        \* the array as it is now
  lookups,        \* the getGpuByName calls so far: name and entry returned
  returned        \* the array returned by the last listing or selection

credVars == << envToken, credFile, tokenCache, now >>

gwVars ==
  << gpc, depth, token, tokenAt, brevToken, freshToken, rcaller,
     errorText, stdout, result, loginCalls, createCalls, refreshCalls,
     gvRefreshes >>

runVars ==
  << pc, attemptProvisioning, needs, brokerResult, best, attempt, currentGpu,
     currentVram, currentCount, provisioningAttempts, provisioningResult,
     selectorCalls, events >>

selVars == << inventory, match >>

concVars == << calls >>

catVars == << catalog, lookups, returned >>

vars == << credVars, gwVars, runVars, selVars, concVars, catVars >>

\* The concurrent runs of one server process.
Runs == 1..NumRuns

Call(at, tok, ret) == [pc |-> at, token |-> tok, ret |-> ret]

NoCalls == [ p \in Runs |-> Call("none", NullToken, NullToken) ]

CatalogUntouched ==
  /\ catalog = BREV_GPU_CATALOG
  /\ lookups = << >>
  /\ returned = << >>

NoMatch == [best |-> NullInstance, second_best |-> NullInstance]

NoCache == [token |-> NullToken, expiresAt |-> 0]

GatewayIdle ==
  /\ gpc = "idle"
  /\ depth = 0
  /\ token = NullToken
  /\ tokenAt = 0
  /\ brevToken = NullToken
  /\ freshToken = NullToken
  /\ rcaller = "none"
  /\ errorText = {}
  /\ stdout = {}
  /\ result = NoResult
  /\ loginCalls = 0
  /\ createCalls = 0
  /\ refreshCalls = 0
  /\ gvRefreshes = 0

Init ==
  /\ envToken \in InitialEnvTokens
  /\ credFile \in InitialFiles
  /\ tokenCache = NoCache
  /\ now = 0
  /\ GatewayIdle
  /\ pc = "match"
  /\ attemptProvisioning \in { attemptProvisioningOf(f) : f \in RequestFlags }
  /\ needs \in RunNeeds
  /\ brokerResult \in BrokerResults
  /\ best = NullInstance
  /\ attempt = 0
  /\ currentGpu = ""
  /\ currentVram = 0
  /\ currentCount = 0
  /\ provisioningAttempts = << >>
  /\ provisioningResult = NoResult
  /\ selectorCalls = 0
  /\ events = << >>
  /\ inventory = << >>
  /\ match = NoMatch
  /\ calls = NoCalls
  /\ CatalogUntouched

(***************************************************************************)
(* Credential Manager                                                      *)
(***************************************************************************)
\* Date.now() advances.
Tick ==
  /\ now < MaxNow
  /\ now' = now + 1
  /\ UNCHANGED << envToken, credFile, tokenCache, gwVars, runVars, selVars, concVars, catVars >>

\* refreshBrevToken returns r to the place that called it: line 288 of
\* getValidBrevToken, or line 394 in the catch clause of the attempt.
ReturnFromRefresh(r) ==
  IF rcaller = "getValid"
    THEN /\ brevToken' = IF r # NullToken THEN r ELSE token
         /\ gpc' = "check_token"
         /\ UNCHANGED freshToken
    ELSE /\ freshToken' = r
         /\ gpc' = "auth_branch"
         /\ UNCHANGED brevToken

\* getValidBrevToken up to its return or its call of refreshBrevToken.
GetValidBrevToken ==
  /\ gpc = "gv_resolve"
  /\ LET fromEnv == envToken
         tok == IF fromEnv # NullToken THEN fromEnv
                ELSE readTokenFromCredentials(credFile)
     IN  /\ token' = tok
         /\ tokenAt' = now
         /\ envToken' = IF fromEnv = NullToken /\ tok # NullToken
                          THEN tok ELSE envToken
         /\ IF tok = NullToken
              THEN /\ brevToken' = NullToken
                   /\ gpc' = "check_token"
                   /\ UNCHANGED << tokenCache, rcaller >>
              ELSE IF isTokenExpired(tok, now)
                THEN /\ rcaller' = "getValid"
                     /\ gpc' = "rf_exec"
                     /\ UNCHANGED << tokenCache, brevToken >>
                ELSE /\ tokenCache' = [token |-> tok,
                                       expiresAt |->
                                         IF decodeJWT(tok) = NoExp THEN 0
                                         ELSE decodeJWT(tok)]
                     /\ brevToken' = tok
                     /\ gpc' = "check_token"
                     /\ UNCHANGED rcaller
  /\ UNCHANGED << credFile, now, depth, freshToken, errorText, stdout, result,
                  loginCalls, createCalls, refreshCalls, gvRefreshes >>
  /\ UNCHANGED << runVars, selVars, concVars, catVars >>

\* refreshBrevToken, line 235: execAsync("brev refresh").
RefreshExec ==
  /\ gpc = "rf_exec"
  /\ refreshCalls' = refreshCalls + 1
  /\ gvRefreshes' = IF rcaller = "getValid" THEN gvRefreshes + 1
                    ELSE gvRefreshes
  /\ \/ \* the command fails or times out: the catch clause decides
        /\ IF refreshBrevTokenOnError = "return_null"
             THEN ReturnFromRefresh(NullToken)
             ELSE /\ gpc' = "thrown"
                  /\ UNCHANGED << brevToken, freshToken >>
        /\ UNCHANGED credFile
     \/ \* the command succeeds; the CLI may have rewritten the file
        /\ credFile' \in RefreshWrites(now) \cup { credFile }
        /\ gpc' = "rf_read"
        /\ UNCHANGED << brevToken, freshToken >>
  /\ UNCHANGED << envToken, tokenCache, now, depth, token, tokenAt, rcaller,
                  errorText, stdout, result, loginCalls, createCalls >>
  /\ UNCHANGED << runVars, selVars, concVars, catVars >>

\* refreshBrevToken, lines 241-257: read the file again and validate.
RefreshRead ==
  /\ gpc = "rf_read"
  /\ LET newToken == readTokenFromCredentials(credFile)
     IN  IF newToken # NullToken /\ ~isTokenExpired(newToken, now)
           THEN /\ tokenCache' = [token |-> newToken,
                                  expiresAt |->
                                    IF decodeJWT(newToken) = NoExp THEN 0
                                    ELSE decodeJWT(newToken)]
                /\ envToken' = newToken
                /\ ReturnFromRefresh(newToken)
           ELSE /\ ReturnFromRefresh(NullToken)
                /\ UNCHANGED << tokenCache, envToken >>
  /\ UNCHANGED << credFile, now, depth, token, tokenAt, rcaller,
                  errorText, stdout, result, loginCalls, createCalls,
                  refreshCalls, gvRefreshes >>
  /\ UNCHANGED << runVars, selVars, concVars, catVars >>

(***************************************************************************)
(* Provisioning Gateway: attemptGpuProvisioning                            *)
(***************************************************************************)
\* Variant: the attempt goes on without looking at the token.
tokenMissing_Unchecked(t) == FALSE

\* Line 324: !brevToken
tokenMissing(t) == t = NullToken

\* Lines 324-333: no token, no attempt.
CheckToken ==
  /\ gpc = "check_token"
  /\ IF tokenMissing(brevToken)
       THEN /\ result' = Res(FALSE, "auth_error", TRUE)
            /\ gpc' = "ret"
       ELSE /\ gpc' = "login"
            /\ UNCHANGED result
  /\ UNCHANGED << credVars, depth, token, tokenAt, brevToken, freshToken,
                  rcaller, errorText, stdout, loginCalls, createCalls,
                  refreshCalls, gvRefreshes >>
  /\ UNCHANGED << runVars, selVars, concVars, catVars >>

\* Line 337: brev login --token.
Login ==
  /\ gpc = "login"
  /\ loginCalls' = loginCalls + 1
  /\ \E out \in LoginOutcomes :
       IF out.ok
         THEN /\ gpc' = "create"
              /\ UNCHANGED errorText
         ELSE /\ gpc' = "catch"
              /\ errorText' = out.text
  /\ UNCHANGED stdout
  /\ UNCHANGED << credVars, depth, token, tokenAt, brevToken, freshToken,
                  rcaller, result, createCalls, refreshCalls, gvRefreshes >>
  /\ UNCHANGED << runVars, selVars, concVars, catVars >>

\* Lines 344-361: brev create --wait-for-running.
Create ==
  /\ gpc = "create"
  /\ createCalls' = createCalls + 1
  /\ \E out \in CreateOutcomes :
       IF out.ok
         THEN /\ stdout' = out.stdout
              /\ result' = createResult(out.stdout)
              /\ gpc' = "ret"
              /\ UNCHANGED errorText
         ELSE /\ gpc' = "catch"
              /\ errorText' = out.text
              /\ UNCHANGED << result, stdout >>
  /\ UNCHANGED << credVars, depth, token, tokenAt, brevToken, freshToken,
                  rcaller, loginCalls, refreshCalls, gvRefreshes >>
  /\ UNCHANGED << runVars, selVars, concVars, catVars >>

\* Lines 363-429: the catch clause classifies the failure.  The auth
\* branch does not read the text again.
Catch ==
  /\ gpc = "catch"
  /\ LET errorType == classifyError(combinedError(errorText))
     IN  IF errorType = "auth_error"
           THEN /\ rcaller' = "catch"
                /\ gpc' = "rf_exec"
                /\ errorText' = {}
                /\ UNCHANGED result
           ELSE /\ result' = Res(FALSE, errorType, TRUE)
                /\ gpc' = "ret"
                /\ UNCHANGED << rcaller, errorText >>
  /\ UNCHANGED << credVars, depth, token, tokenAt, brevToken, freshToken,
                  stdout, loginCalls, createCalls, refreshCalls,
                  gvRefreshes >>
  /\ UNCHANGED << runVars, selVars, concVars, catVars >>

\* Lines 395-405: with a fresh token the whole attempt is made again.
AuthBranch ==
  /\ gpc = "auth_branch"
  /\ IF freshToken # NullToken
       THEN /\ depth < MaxDepth
            /\ depth' = depth + 1
            /\ gpc' = "gv_resolve"
            /\ gvRefreshes' = 0
            /\ UNCHANGED result
       ELSE /\ result' = Res(FALSE, "auth_error", TRUE)
            /\ gpc' = "ret"
            /\ UNCHANGED << depth, gvRefreshes >>
  /\ freshToken' = NullToken
  /\ UNCHANGED << credVars, token, tokenAt, brevToken, rcaller,
                  errorText, stdout, loginCalls, createCalls, refreshCalls >>
  /\ UNCHANGED << runVars, selVars, concVars, catVars >>

(***************************************************************************)
(* Retry Orchestrator: POST /api/analyze, from the Broker's answer on      *)
(***************************************************************************)
MAX_RETRIES == 3

\* Variant: the retry budget is not tested after a failure.
breakAfterFailure_NoBudget(errorType, att) == errorType # "out_of_stock"

\* Variant: every kind of failure is retried while budget remains.
breakAfterFailure_AnyError(errorType, att) == att >= MAX_RETRIES - 1

\* Line 549: the loop is left after a failure that is not retried.
breakAfterFailure(errorType, att) ==
  errorType # "out_of_stock" \/ att >= MAX_RETRIES - 1

\* The loop goes on whenever should_retry is set, next_gpu given or not.
breakOnDecision_ShouldRetryOnly(d) == ~d.should_retry

\* Line 577: the decision ends the loop.
breakOnDecision(d) == ~d.should_retry \/ d.next_gpu = ""

\* Lines 582-584: the candidate of the next attempt.
nextCandidate(d, vram, count) ==
  [gpu |-> d.next_gpu,
   vram |-> IF d.next_vram # 0 THEN d.next_vram ELSE vram,
   count |-> IF d.next_gpu_count # 0 THEN d.next_gpu_count ELSE count]

\* Only the attempt that has just failed is passed.
failedAttemptsArg_LastOnly(history) ==
  [ i \in 1..1 |->
      [gpu |-> history[Len(history)].gpu, vram |-> history[Len(history)].vram,
       gpuCount |-> history[Len(history)].gpuCount] ]

\* Lines 556-561: the failedAttempts argument of decideGpuRetry.
failedAttemptsArg(history) ==
  [ i \in 1..Len(history) |->
      [gpu |-> history[i].gpu, vram |-> history[i].vram,
       gpuCount |-> history[i].gpuCount] ]

\* Line 545: the willRetry field of the provisioning_failed event.
willRetry(errorType, att) ==
  att < MAX_RETRIES - 1 /\ errorType = "out_of_stock"

\* An entry of the stream: the event type and the fields of its payload
\* that are read here (gpu is nextGpu and flag is shouldRetry in a
\* retry_decision, flag is willRetry in a provisioning_failed, flag is
\* provisioning.success in a complete).  A "selector_call" entry is not
\* sent: it records a call of decideGpuRetry with its failedAttempts.
Ev(type, gpu, vram, gpuCount, info, flag, attempts) ==
  [type |-> type, gpu |-> gpu, vram |-> vram, gpuCount |-> gpuCount,
   info |-> info, flag |-> flag, attempts |-> attempts]

\* Provisioning is attempted whenever it was requested.
shouldProvision_Requested(requested, b) == requested

\* Line 492: if (attemptProvisioning && best)
shouldProvision(requested, b) == requested /\ b # NullInstance

\* Lines 439-448 and 492-501: the catalog lookup of the recommendation and
\* the guard of the provisioning step.
MatchStep ==
  /\ pc = "match"
  /\ LET recommendedInstance == getGpuByName(brokerResult.recommended_gpu)
         b == IF recommendedInstance # NullInstance
                THEN [recommendedInstance EXCEPT
                        !.count = brokerResult.gpu_count]
                ELSE NullInstance
     IN  /\ best' = b
         /\ IF shouldProvision(attemptProvisioning, b)
              THEN /\ currentGpu' = b.name
                   /\ currentVram' = b.vram
                   /\ currentCount' = b.count
                   /\ pc' = "loop"
              ELSE /\ pc' = "final"
                   /\ UNCHANGED << currentGpu, currentVram, currentCount >>
  /\ UNCHANGED << attemptProvisioning, needs, brokerResult, attempt,
                  provisioningAttempts, provisioningResult, selectorCalls,
                  events >>
  /\ UNCHANGED << credVars, gwVars, selVars, concVars, catVars >>

\* Lines 503-515: the loop test and the call of attemptGpuProvisioning.
DispatchAttempt ==
  /\ pc = "loop"
  /\ IF attempt < MAX_RETRIES
       THEN /\ events' = Append(events,
                                Ev("provisioning_attempt", currentGpu,
                                   currentVram, currentCount, "", FALSE,
                                   << >>))
            /\ pc' = "await"
            /\ gpc' = "gv_resolve"
       ELSE /\ pc' = "provision_done"
            /\ UNCHANGED << gpc, events >>
  /\ UNCHANGED << depth, token, tokenAt, brevToken, freshToken, rcaller,
                  errorText, stdout, result, loginCalls, createCalls,
                  refreshCalls, gvRefreshes >>
  /\ UNCHANGED << attemptProvisioning, needs, brokerResult, best, attempt,
                  currentGpu, currentVram, currentCount,
                  provisioningAttempts, provisioningResult, selectorCalls >>
  /\ UNCHANGED << credVars, selVars, concVars, catVars >>

\* Lines 517-551: the attempt is recorded and the loop goes on or ends.  An
\* exception of the call would reach the catch clause of line 620.
AttemptReturned ==
  /\ pc = "await"
  /\ gpc \in { "ret", "thrown" }
  /\ gpc' = "idle"
  /\ depth' = 0
  /\ token' = NullToken
  /\ tokenAt' = 0
  /\ brevToken' = NullToken
  /\ rcaller' = "none"
  /\ result' = NoResult
  /\ loginCalls' = 0
  /\ createCalls' = 0
  /\ refreshCalls' = 0
  /\ gvRefreshes' = 0
  /\ IF gpc = "thrown"
       THEN /\ pc' = "errored"
            /\ events' = Append(events,
                                Ev("error", "", 0, 0, "", FALSE, << >>))
            /\ UNCHANGED << provisioningAttempts, provisioningResult >>
       ELSE /\ provisioningAttempts' =
                 Append(provisioningAttempts,
                        [gpu |-> currentGpu, vram |-> currentVram,
                         gpuCount |-> currentCount,
                         success |-> result.success,
                         errorType |-> result.errorType])
            /\ IF result.success
                 THEN /\ provisioningResult' = result
                      /\ events' = Append(events,
                                          Ev("provisioning_success",
                                             currentGpu, currentVram,
                                             currentCount, "", FALSE, << >>))
                      /\ pc' = "provision_done"
                 ELSE /\ UNCHANGED provisioningResult
                      /\ events' = Append(events,
                                          Ev("provisioning_failed",
                                             currentGpu, 0, 0,
                                             result.errorType,
                                             willRetry(result.errorType,
                                                       attempt),
                                             << >>))
                      /\ pc' = IF breakAfterFailure(result.errorType, attempt)
                                 THEN "provision_done" ELSE "decide"
  /\ errorText' = {}
  /\ stdout' = {}
  /\ UNCHANGED freshToken
  /\ UNCHANGED << attemptProvisioning, needs, brokerResult, best, attempt,
                  currentGpu, currentVram, currentCount, selectorCalls >>
  /\ UNCHANGED << credVars, selVars, concVars, catVars >>

\* Lines 554-584: decideGpuRetry answers (or its request fails and the
\* catch clause of line 620 ends the run); the answer is applied.
DecideGpuRetry ==
  /\ pc = "decide"
  /\ selectorCalls' = selectorCalls + 1
  /\ LET call == Ev("selector_call", "", 0, 0, "", FALSE,
                     failedAttemptsArg(provisioningAttempts))
     IN  \/ /\ pc' = "errored"
            /\ events' = events \o
                           << call, Ev("error", "", 0, 0, "", FALSE, << >>) >>
            /\ UNCHANGED << attempt, currentGpu, currentVram, currentCount >>
         \/ \E retryDecision \in RetryDecisions :
              /\ events' = events \o
                             << call,
                                Ev("retry_decision", retryDecision.next_gpu,
                                   0, 0, "", retryDecision.should_retry,
                                   << >>) >>
              /\ IF breakOnDecision(retryDecision)
                   THEN /\ pc' = "provision_done"
                        /\ UNCHANGED << attempt, currentGpu, currentVram,
                                        currentCount >>
                   ELSE LET c == nextCandidate(retryDecision, currentVram,
                                               currentCount)
                        IN  /\ currentGpu' = c.gpu
                            /\ currentVram' = c.vram
                            /\ currentCount' = c.count
                            /\ attempt' = attempt + 1
                            /\ pc' = "loop"
  /\ UNCHANGED << attemptProvisioning, needs, brokerResult, best,
                  provisioningAttempts, provisioningResult >>
  /\ UNCHANGED << credVars, gwVars, selVars, concVars, catVars >>

\* Lines 587-598: the provision step is closed.
ProvisionDone ==
  /\ pc = "provision_done"
  /\ pc' = "final"
  /\ events' = Append(events,
                      Ev("step_update", "", 0, 0,
                         IF provisioningResult.success THEN "complete"
                         ELSE "error",
                         FALSE, provisioningAttempts))
  /\ UNCHANGED << attemptProvisioning, needs, brokerResult, best, attempt,
                  currentGpu, currentVram, currentCount,
                  provisioningAttempts, provisioningResult, selectorCalls >>
  /\ UNCHANGED << credVars, gwVars, selVars, concVars, catVars >>

\* The final result reports a success whenever provisioning was attempted.
provisioningSuccess_Attempted(r) == TRUE

\* The success field of provisioning in the complete event:
\* provisioningResult?.success || false.
provisioningSuccess(r) == r.success

\* Lines 601-619: the final result is sent.
FinalResult ==
  /\ pc = "final"
  /\ pc' = "done"
  /\ events' = Append(events,
                      IF attemptProvisioning
                        THEN Ev("complete", "", 0, 0, "attempted",
                                provisioningSuccess(provisioningResult),
                                provisioningAttempts)
                        ELSE Ev("complete", "", 0, 0, "undefined", FALSE,
                                << >>))
  /\ UNCHANGED << attemptProvisioning, needs, brokerResult, best, attempt,
                  currentGpu, currentVram, currentCount,
                  provisioningAttempts, provisioningResult, selectorCalls >>
  /\ UNCHANGED << credVars, gwVars, selVars, concVars, catVars >>

(***************************************************************************)
(* The rule-based selection applied to a requirement record and an         *)
(* inventory.                                                              *)
(***************************************************************************)
InitSelect ==
  /\ envToken = NullToken
  /\ credFile = File("absent", NullToken)
  /\ tokenCache = NoCache
  /\ now = 0
  /\ GatewayIdle
  /\ pc = "select"
  /\ attemptProvisioning = FALSE
  /\ needs \in SelectNeeds
  /\ brokerResult = [recommended_gpu |-> "", gpu_count |-> 0]
  /\ best = NullInstance
  /\ attempt = 0
  /\ currentGpu = ""
  /\ currentVram = 0
  /\ currentCount = 0
  /\ provisioningAttempts = << >>
  /\ provisioningResult = NoResult
  /\ selectorCalls = 0
  /\ events = << >>
  /\ inventory \in Inventories
  /\ match = NoMatch
  /\ calls = NoCalls
  /\ CatalogUntouched

FindBestInstance ==
  /\ pc = "select"
  /\ match' = findBestInstance(needs, inventory)
  /\ pc' = "selected"
  /\ UNCHANGED << attemptProvisioning, needs, brokerResult, best, attempt,
                  currentGpu, currentVram, currentCount,
                  provisioningAttempts, provisioningResult, selectorCalls,
                  events, inventory >>
  /\ UNCHANGED << credVars, gwVars, concVars, catVars >>

NextSelect == FindBestInstance

SpecSelect == InitSelect /\ [][NextSelect]_vars

Next ==
  \/ Tick
  \/ GetValidBrevToken
  \/ RefreshExec
  \/ RefreshRead
  \/ CheckToken
  \/ Login
  \/ Create
  \/ Catch
  \/ AuthBranch
  \/ MatchStep
  \/ DispatchAttempt
  \/ AttemptReturned
  \/ DecideGpuRetry
  \/ ProvisionDone
  \/ FinalResult

Spec == Init /\ [][Next]_vars

(***************************************************************************)
(* getValidBrevToken called by several runs at once.  The runs share       *)
(* process.env, the credentials file and tokenCache; every await is a      *)
(* point at which another run may proceed.                                 *)
(***************************************************************************)
RunIdle ==
  /\ attemptProvisioning = FALSE
  /\ needs \in RunNeeds
  /\ brokerResult = [recommended_gpu |-> "", gpu_count |-> 0]
  /\ best = NullInstance
  /\ attempt = 0
  /\ currentGpu = ""
  /\ currentVram = 0
  /\ currentCount = 0
  /\ provisioningAttempts = << >>
  /\ provisioningResult = NoResult
  /\ selectorCalls = 0
  /\ events = << >>
  /\ inventory = << >>
  /\ match = NoMatch

InitConcurrent ==
  /\ envToken \in InitialEnvTokens
  /\ credFile \in InitialFiles
  /\ tokenCache = NoCache
  /\ now = 0
  /\ GatewayIdle
  /\ pc = "concurrent"
  /\ RunIdle
  /\ calls = [ p \in Runs |-> Call("gv_resolve", NullToken, NullToken) ]
  /\ CatalogUntouched

\* Lines 268-288 and 298-305 for run p: from the entry of
\* getValidBrevToken to its return or to the start of `brev refresh`
\* (line 235), which is the first await on the path of a token found in
\* process.env.
ConcurrentGetValidBrevToken(p) ==
  /\ calls[p].pc = "gv_resolve"
  /\ LET fromEnv == envToken
         tok == IF fromEnv # NullToken THEN fromEnv
                ELSE readTokenFromCredentials(credFile)
     IN  /\ envToken' = IF fromEnv = NullToken /\ tok # NullToken
                          THEN tok ELSE envToken
         /\ IF tok = NullToken
              THEN /\ calls' = [calls EXCEPT ![p] =
                                  Call("returned", tok, NullToken)]
                   /\ UNCHANGED tokenCache
              ELSE IF isTokenExpired(tok, now)
                THEN /\ calls' = [calls EXCEPT ![p] =
                                    Call("rf_exec", tok, NullToken)]
                     /\ UNCHANGED tokenCache
                ELSE /\ tokenCache' = [token |-> tok,
                                       expiresAt |->
                                         IF decodeJWT(tok) = NoExp THEN 0
                                         ELSE decodeJWT(tok)]
                     /\ calls' = [calls EXCEPT ![p] =
                                    Call("returned", tok, tok)]
  /\ UNCHANGED << credFile, now, gwVars, runVars, selVars, catVars >>

\* Line 235 for run p: the `brev refresh` it started completes.
ConcurrentRefreshExec(p) ==
  /\ calls[p].pc = "rf_exec"
  /\ \/ \* the command fails: refreshBrevToken returns null, lines 293-295
        /\ calls' = [calls EXCEPT ![p] =
                       Call("returned", calls[p].token, calls[p].token)]
        /\ UNCHANGED credFile
     \/ \* the command succeeds; the CLI may have rewritten the file
        /\ credFile' \in RefreshWrites(now) \cup { credFile }
        /\ calls' = [calls EXCEPT ![p].pc = "rf_read"]
  /\ UNCHANGED << envToken, tokenCache, now, gwVars, runVars, selVars,
                  catVars >>

\* Lines 241-257 for run p: read the file again, validate, update the
\* cache and process.env.
ConcurrentRefreshRead(p) ==
  /\ calls[p].pc = "rf_read"
  /\ LET newToken == readTokenFromCredentials(credFile)
     IN  IF newToken # NullToken /\ ~isTokenExpired(newToken, now)
           THEN /\ tokenCache' = [token |-> newToken,
                                  expiresAt |->
                                    IF decodeJWT(newToken) = NoExp THEN 0
                                    ELSE decodeJWT(newToken)]
                /\ envToken' = newToken
                /\ calls' = [calls EXCEPT ![p] =
                               Call("returned", calls[p].token, newToken)]
           ELSE /\ calls' = [calls EXCEPT ![p] =
                               Call("returned", calls[p].token,
                                    calls[p].token)]
                /\ UNCHANGED << tokenCache, envToken >>
  /\ UNCHANGED << credFile, now, gwVars, runVars, selVars, catVars >>

NextConcurrent ==
  \/ Tick
  \/ \E p \in Runs : ConcurrentGetValidBrevToken(p)
  \/ \E p \in Runs : ConcurrentRefreshExec(p)
  \/ \E p \in Runs : ConcurrentRefreshRead(p)

SpecConcurrent == InitConcurrent /\ [][NextConcurrent]_vars

(***************************************************************************)
(* The catalog operations, called in any order on the module-level array.  *)
(***************************************************************************)
LookupNames == { "H100", "h100", "T4", "GTX 1080" }

MinVrams == { 24, 80, 200 }

ArchNames == { "hopper", "Ada", "Quantum" }

CatalogNeeds ==
  { Needs(48, "Hopper", FALSE), Needs(22, "Any", FALSE),
    Needs(170, "Ampere", TRUE) }

InitCatalog ==
  /\ envToken = NullToken
  /\ credFile = File("absent", NullToken)
  /\ tokenCache = NoCache
  /\ now = 0
  /\ GatewayIdle
  /\ pc = "catalog"
  /\ RunIdle
  /\ calls = NoCalls
  /\ CatalogUntouched

GetGpuByName ==
  /\ Len(lookups) < MaxLookups
  /\ \E name \in LookupNames :
       lookups' = Append(lookups,
                         [name |-> name,
                          entry |-> findInCatalog(catalog, name)])
  /\ UNCHANGED << catalog, returned >>
  /\ UNCHANGED << credVars, gwVars, runVars, selVars, concVars >>

GetGpusByMinVram ==
  /\ \E minVram \in MinVrams :
       LET r == getGpusByMinVram(catalog, minVram)
       IN  /\ returned' = r.returned
           /\ catalog' = r.catalog
  /\ UNCHANGED lookups
  /\ UNCHANGED << credVars, gwVars, runVars, selVars, concVars >>

GetGpusByArchitecture ==
  /\ \E arch \in ArchNames :
       returned' = getGpusByArchitecture(catalog, arch)
  /\ UNCHANGED << catalog, lookups >>
  /\ UNCHANGED << credVars, gwVars, runVars, selVars, concVars >>

\* findBestInstance(needs, getBrevInventory()): the inventory argument is
\* the catalog array itself; filter copies it before the sort.
FindBestInCatalog ==
  /\ \E n \in CatalogNeeds :
       LET m == findBestInstance(n, catalog)
       IN  returned' = SelectSeq(<< m.best, m.second_best >>,
                                 LAMBDA g : g # NullInstance)
  /\ UNCHANGED << catalog, lookups >>
  /\ UNCHANGED << credVars, gwVars, runVars, selVars, concVars >>

NextCatalog ==
  \/ GetGpuByName
  \/ GetGpusByMinVram
  \/ GetGpusByArchitecture
  \/ FindBestInCatalog

SpecCatalog == InitCatalog /\ [][NextCatalog]_vars

(***************************************************************************)
(* Properties                                                              *)
(***************************************************************************)
History == provisioningAttempts

TotalVram(a) == a.vram * a.gpuCount

AllOutOfStock ==
  \A i \in 1..Len(History) :
    ~History[i].success /\ History[i].errorType = "out_of_stock"

\* C1: a run calls attemptGpuProvisioning at most 3 times, so the history
\* never holds more than 3 entries and no call is in flight once it holds 3;
\* the selector is asked at most twice, and after three out_of_stock
\* failures the run neither attempts nor asks the selector again.
C1_AtMostThreeAttempts ==
  /\ Len(History) <= 3
  /\ pc = "await" => Len(History) <= 2
  /\ selectorCalls <= 2
  /\ (Len(History) = 3 /\ AllOutOfStock) =>
        /\ pc \in { "provision_done", "final", "done" }
        /\ selectorCalls = 2

C1_Witness ==
  /\ pc = "done"
  /\ Len(History) = 3
  /\ AllOutOfStock
  /\ selectorCalls = 2

\* C2: one top-level call of attemptGpuProvisioning issues at most two
\* workspace-create requests (the auth retry is bounded to one extra try).
C2_AtMostTwoCreates == createCalls <= 2

\* C3: the selector is asked, and a further attempt dispatched, only after a
\* failure classified out_of_stock: every history entry that is followed by
\* the selector or by another attempt is an out_of_stock failure.
C3_RetryOnlyOnOutOfStock ==
  /\ \A i \in 1..(Len(History) - 1) :
       ~History[i].success /\ History[i].errorType = "out_of_stock"
  /\ (pc \in { "decide", "loop", "await" } /\ Len(History) >= 1) =>
       /\ ~History[Len(History)].success
       /\ History[Len(History)].errorType = "out_of_stock"
  /\ selectorCalls <= Len(History)
  /\ selectorCalls >= 1 => History[selectorCalls].errorType = "out_of_stock"

C3_Witness ==
  /\ pc = "done"
  /\ Len(History) = 2
  /\ History[1].errorType = "out_of_stock"
  /\ History[2].errorType = "invalid_config"
  /\ selectorCalls = 1
  /\ attempt = 1

\* C4: no death spiral: every attempt after the first has vram x gpuCount of
\* at least 60% of the vram x gpuCount of the first attempt.
C4_NoDeathSpiral ==
  \A i \in 2..Len(History) :
    10 * TotalVram(History[i]) >= 6 * TotalVram(History[1])

\* C5: the entries of a run's history have pairwise distinct (gpu, gpuCount).
C5_NoRepeatedCandidate ==
  \A i, j \in 1..Len(History) :
    (i # j) =>
      ~(History[i].gpu = History[j].gpu
          /\ History[i].gpuCount = History[j].gpuCount)

C7_NoTokenNoCommand ==
  (gpc \in { "check_token", "ret" } /\ brevToken = NullToken) =>
    /\ loginCalls = 0
    /\ createCalls = 0
    /\ refreshCalls = 0
    /\ gpc = "ret" =>
         ~result.success /\ result.errorType = "auth_error"

C7_Witness ==
  /\ gpc = "ret"
  /\ brevToken = NullToken
  /\ result = Res(FALSE, "auth_error", TRUE)
  /\ loginCalls + createCalls + refreshCalls = 0

\* C8: whatever findBestInstance returns as best or second_best has
\* vram x count >= 1.2 x estimated_vram_gb.
C8_Headroom ==
  pc = "selected" =>
    \A m \in { match.best, match.second_best } :
      m # NullInstance =>
        10 * m.vram * m.count >= 12 * needs.estimated_vram_gb

\* The substitution table of the specification.
SubstitutionSet(arch) ==
  CASE arch = "Ampere" -> { "Ampere", "Hopper", "Ada", "Blackwell" }
    [] arch = "Hopper" -> { "Hopper", "Blackwell" }
    [] arch = "Ada" -> { "Ada", "Hopper", "Blackwell" }

\* C9: for a requirement record with requires_multi_gpu = false, the
\* instances findBestInstance returns have an architecture inside the
\* substitution set of the requested architecture.
C9_ArchSubstitution ==
  (pc = "selected" /\ ~needs.requires_multi_gpu
     /\ needs.recommended_gpu_architecture # "Any") =>
    \A m \in { match.best, match.second_best } :
      m # NullInstance =>
        m.arch \in SubstitutionSet(needs.recommended_gpu_architecture)

C9_Witness ==
  /\ pc = "selected"
  /\ ~needs.requires_multi_gpu
  /\ needs.recommended_gpu_architecture = "Hopper"
  /\ \E i \in 1..Len(inventory) :
       /\ inventory[i].arch = "Ampere"
       /\ inventory[i].vram * inventory[i].count >= needs.estimated_vram_gb
       /\ inventory[i].price < match.best.price
  /\ match.best # NullInstance
  /\ match.best.arch = "Hopper"

\* C10: when the token getValidBrevToken resolved expires less than 300
\* seconds after the time of the call, the call has executed the refresh
\* command exactly once when it returns; it never executes it twice.
C10_OneRefreshWhenExpiring ==
  /\ gvRefreshes <= 1
  /\ (gpc = "check_token" /\ token # NullToken /\ token.exp # NoExp
        /\ token.exp - tokenAt < 300) => gvRefreshes = 1

C10_Witness ==
  /\ gpc = "check_token"
  /\ token # NullToken
  /\ token.exp = 299
  /\ gvRefreshes = 1
  /\ brevToken.id = "fresh"


\* C11: when the token getValidBrevToken resolved is expired (or within
\* the 300 s margin) and the refresh produced nothing, the call returns
\* null: the expired token never reaches the gateway, which neither
\* holds it after the call nor passes it to brev login or brev create.
C11_ExpiredTokenNotReturned ==
  ( /\ gpc \in {"check_token", "login", "create"}
    /\ token # NullToken
    /\ decodeJWT(token) < tokenAt + fiveMinutes )
  => brevToken # token


\* C12: concurrent runs that find the same token expired are serialized:
\* at most one `brev refresh` is in flight at any time, and at most one
\* run at a time is between its expiry check and the end of its refresh
\* (the cache update included).
C12_RefreshSerialized ==
  /\ Cardinality({ p \in Runs : calls[p].pc = "rf_exec" }) <= 1
  /\ Cardinality({ p \in Runs : calls[p].pc \in {"rf_exec", "rf_read"} }) <= 1

\* The attempts dispatched so far, in dispatch order.
Dispatched ==
  SelectSeq(events, LAMBDA e : e.type = "provisioning_attempt")

\* The run has ended: the stream is closed.
RunEnded == pc \in {"done", "errored"}

\* C13: a run that dispatched at least one attempt ends with a final
\* result carrying the full attempt history, one entry per dispatched
\* attempt in dispatch order; it never ends with only an error message.
C13_FinalResultCarriesHistory ==
  (RunEnded /\ Len(Dispatched) >= 1)
  => LET last == events[Len(events)]
     IN  /\ last.type = "complete"
         /\ Len(last.attempts) = Len(Dispatched)
         /\ \A i \in 1..Len(Dispatched) :
              /\ last.attempts[i].gpu = Dispatched[i].gpu
              /\ last.attempts[i].vram = Dispatched[i].vram
              /\ last.attempts[i].gpuCount = Dispatched[i].gpuCount

\* The attempts dispatched before the i-th entry of the stream.
DispatchedBefore(i) ==
  SelectSeq(SubSeq(events, 1, i - 1),
            LAMBDA e : e.type = "provisioning_attempt")

\* C14: at every call of decideGpuRetry the failed attempt that caused
\* it is already in the history, and the history passed has one entry
\* for every attempt dispatched so far in the run, in dispatch order.
C14_SelectorSeesWholeHistory ==
  \A i \in 1..Len(events) :
    events[i].type = "selector_call"
    => LET d == DispatchedBefore(i)
       IN  /\ Len(events[i].attempts) = Len(d)
           /\ \A k \in 1..Len(d) :
                /\ events[i].attempts[k].gpu = d[k].gpu
                /\ events[i].attempts[k].vram = d[k].vram
                /\ events[i].attempts[k].gpuCount = d[k].gpuCount

\* The selector is called a second time, with two failed attempts of
\* different candidates.
C14_Witness ==
  \E i \in 1..Len(events) :
    /\ events[i].type = "selector_call"
    /\ Len(events[i].attempts) = 2
    /\ events[i].attempts[1].gpu # events[i].attempts[2].gpu

\* C15: every candidate attempted after a failure still passes the
\* filters of the initial selection against the run's requirement
\* record: a catalog entry whose architecture is in the substitution
\* set of the requested one, vram x count covering the requirement with
\* its headroom, and at least 2 GPUs when requires_multi_gpu is set.
C15_RetryCandidateMeetsFilters ==
  \A i \in 2..Len(History) :
    LET g == getGpuByName(History[i].gpu)
    IN  /\ g # NullInstance
        /\ (needs.recommended_gpu_architecture # "Any"
              => g.arch \in SubstitutionSet(needs.recommended_gpu_architecture))
        /\ 10 * TotalVram(History[i]) >= 12 * needs.estimated_vram_gb
        /\ (needs.requires_multi_gpu => History[i].gpuCount >= 2)

\* The architectures of SpecialistOutputSchema.
SchemaArchitectures == { "Any", "Ampere", "Hopper", "Ada" }

\* C16: a requirement record with estimated_vram_gb <= 0, or with an
\* architecture outside Any, Ampere, Hopper, Ada, is rejected before it
\* is used: findBestInstance produces no selection from it.
C16_InvalidRecordRejected ==
  ( /\ pc = "selected"
    /\ \/ needs.estimated_vram_gb <= 0
       \/ needs.recommended_gpu_architecture \notin SchemaArchitectures )
  => match = NoMatch

\* C17: when the token taken from BREV_TOKEN is expired and the
\* credentials file holds an unexpired token, getValidBrevToken returns
\* the token of the file, whatever `brev refresh` did.
C17_FallsBackToFileToken ==
  LET fileToken == readTokenFromCredentials(credFile)
  IN  ( /\ gpc = "check_token"
        /\ token # NullToken
        /\ decodeJWT(token) < tokenAt + fiveMinutes
        /\ fileToken # NullToken
        /\ ~(decodeJWT(fileToken) < now + fiveMinutes) )
      => brevToken = fileToken

\* The position of a catalog entry in the catalog as declared.
CatalogIndex(g) ==
  CHOOSE i \in 1..Len(BREV_GPU_CATALOG) : BREV_GPU_CATALOG[i] = g

\* C18: no catalog operation changes BREV_GPU_CATALOG: after any
\* sequence of getGpuByName, getGpusByMinVram, getGpusByArchitecture and
\* findBestInstance calls it holds the same entries in the same order,
\* and any two getGpuByName calls whose names differ at most in letter
\* case returned the same entry, or both returned nothing.
C18_CatalogUnchanged ==
  /\ catalog = BREV_GPU_CATALOG
  /\ \A i, j \in 1..Len(lookups) :
       ToLowerCase(lookups[i].name) = ToLowerCase(lookups[j].name)
       => lookups[i].entry = lookups[j].entry

\* A sorting operation returned entries in an order other than the
\* catalog's, the same GPU was looked up under two spellings, and a name
\* that is not in the catalog was looked up.
C18_Witness ==
  /\ \E a, b \in 1..Len(returned) :
       a < b /\ CatalogIndex(returned[a]) > CatalogIndex(returned[b])
  /\ \E i, j \in 1..Len(lookups) :
       /\ lookups[i].name # lookups[j].name
       /\ lookups[i].entry = lookups[j].entry
       /\ lookups[i].entry # NullInstance
  /\ \E i \in 1..Len(lookups) : lookups[i].entry = NullInstance

\* C19: a decision of the selector with should_retry = false or without
\* next_gpu is terminal: no attempt is dispatched after it.  After a
\* decision with should_retry = true and a next_gpu, the next thing the
\* run does is to dispatch an attempt with exactly that GPU, and the run
\* does not end before it has done so.
C19_DecisionIsObeyed ==
  \A i \in 1..Len(events) :
    events[i].type = "retry_decision"
    => IF ~events[i].flag \/ events[i].gpu = ""
         THEN \A j \in (i + 1)..Len(events) :
                events[j].type # "provisioning_attempt"
         ELSE /\ RunEnded => i < Len(events)
              /\ i < Len(events)
                 => /\ events[i + 1].type = "provisioning_attempt"
                    /\ events[i + 1].gpu = events[i].gpu

\* A finished run in which the selector first named another GPU, which
\* was attempted and was out of stock too, and then, with one attempt of
\* the budget left, answered should_retry = true without a next_gpu.
C19_Witness ==
  /\ pc = "done"
  /\ Len(History) = 2
  /\ AllOutOfStock
  /\ \E i, j \in 1..Len(events) :
       /\ i < j
       /\ events[i].type = "retry_decision"
       /\ events[i].flag /\ events[i].gpu # ""
       /\ events[i].gpu # History[1].gpu
       /\ events[j].type = "retry_decision"
       /\ events[j].flag /\ events[j].gpu = ""

\* C20: after a provisioning_failed event with willRetry = true the run
\* dispatches a further attempt before it ends, and after one with
\* willRetry = false it dispatches none.
C20_WillRetryIsAccurate ==
  \A i \in 1..Len(events) :
    events[i].type = "provisioning_failed"
    => IF events[i].flag
         THEN RunEnded
              => \E j \in (i + 1)..Len(events) :
                   events[j].type = "provisioning_attempt"
         ELSE \A j \in (i + 1)..Len(events) :
                events[j].type # "provisioning_attempt"

\* C21: a token is treated as expired exactly when it carries no readable
\* expiry or now + 300 >= its expiry: getValidBrevToken refreshes such a
\* token, the one that expires in exactly 300 s included, and returns any
\* other token without a refresh.
C21_ExpiredAtTheMargin ==
  (gpc = "check_token" /\ token # NullToken)
  => ( ( \/ decodeJWT(token) = NoExp
         \/ tokenAt + fiveMinutes >= decodeJWT(token) )
       <=> gvRefreshes >= 1 )

\* A step of refreshBrevToken, with what it returns when the step is its
\* last one (to line 288 of getValidBrevToken, where a null is replaced
\* by the expired token, or to line 394 of the catch clause).
RefreshStepIsSound ==
  gpc \in {"rf_exec", "rf_read"}
  => LET returns == gpc' \in {"check_token", "auth_branch"}
         r == IF rcaller = "catch" THEN freshToken'
              ELSE IF brevToken' # token THEN brevToken'
              ELSE NullToken
     IN  /\ gpc' # "thrown"
         /\ (returns /\ r # NullToken)
            => /\ ~(now + fiveMinutes >= decodeJWT(r))
               /\ tokenCache'.token = r
               /\ envToken' = r
         /\ (returns /\ r = NullToken)
            => (tokenCache' = tokenCache /\ envToken' = envToken)
         /\ (tokenCache'.token # NullToken
               => tokenCache'.token = envToken')

\* C22: refreshBrevToken never throws.  When it returns a token t, t is
\* unexpired under the 300 s rule (not now + 300 >= exp) and in the state
\* it returns in both tokenCache.token and process.env.BREV_TOKEN are t;
\* when it returns null both are as they were.  Whenever the cache is
\* populated, its token is the process-level variable.
C22_RefreshUpdatesCacheAndEnv == [][RefreshStepIsSound]_vars

\* The classes whose keywords occur in the lower-cased text.
KeywordClasses(text) ==
  LET lowered == { ToLowerCase(phrase) : phrase \in text }
  IN  { c \in { "out_of_stock", "auth_error", "invalid_config" } :
          CASE c = "out_of_stock" -> OutOfStockKeywords \cap lowered # {}
            [] c = "auth_error" -> AuthKeywords \cap lowered # {}
            [] c = "invalid_config" -> ConfigKeywords \cap lowered # {} }

\* A step of the catch clause that returns a result: the errorType is a
\* class of which the lower-cased text holds a keyword, and unknown when
\* it holds none; the auth branch is entered only with an auth keyword
\* in the text, and what it returns after a failed refresh is auth_error.
ClassifiedByKeywords ==
  /\ (gpc = "catch" /\ gpc' = "ret")
     => /\ ~result'.success
        /\ IF KeywordClasses(errorText) = {}
             THEN result'.errorType = "unknown"
             ELSE result'.errorType \in KeywordClasses(errorText)
  /\ (gpc = "catch" /\ gpc' = "rf_exec")
     => "auth_error" \in KeywordClasses(errorText)
  /\ (gpc = "auth_branch" /\ gpc' = "ret")
     => (~result'.success /\ result'.errorType = "auth_error")

\* C23: a failed CLI call that is not retried is classified by the
\* keywords its lower-cased message-and-stderr text contains: out_of_stock,
\* auth_error or invalid_config only with a keyword of that class in the
\* text, and unknown exactly when the text holds no keyword at all.
C23_ClassifiedByKeywords == [][ClassifiedByKeywords]_vars

\* A failure whose text is written with capitals has been classified.
C23_Witness ==
  /\ gpc = "ret"
  /\ errorText = { "Out Of Stock" }
  /\ result.errorType = "out_of_stock"

\* The positions of the inventory that pass the filters.
SuitableIndexes ==
  { i \in 1..Len(inventory) : isSuitable(needs, inventory[i]) }

\* a is not behind b in the order of the claim: lower price first, and
\* among equal prices lower vram x count first.
NotBehind(a, b) ==
  \/ a.price < b.price
  \/ a.price = b.price /\ a.vram * a.count <= b.vram * b.count

\* C24: among the instances that pass the filters, best has the minimum
\* price and, among those of that price, the minimum vram x count;
\* second_best is the minimum in the same order of the instances that
\* remain; each is null when no such instance exists.
C24_CheapestThenSmallest ==
  pc = "selected"
  => /\ (Cardinality(SuitableIndexes) = 0) <=> (match.best = NullInstance)
     /\ (Cardinality(SuitableIndexes) <= 1)
        <=> (match.second_best = NullInstance)
     /\ Cardinality(SuitableIndexes) >= 1
        => \E i \in SuitableIndexes :
             /\ inventory[i] = match.best
             /\ \A j \in SuitableIndexes : NotBehind(match.best, inventory[j])
             /\ Cardinality(SuitableIndexes) >= 2
                => \E k \in SuitableIndexes \ {i} :
                     /\ inventory[k] = match.second_best
                     /\ \A j \in SuitableIndexes \ {i} :
                          NotBehind(match.second_best, inventory[j])

\* Two suitable instances of equal price and different vram x count, the
\* larger one first in the inventory, and a third, dearer one.
C24_Witness ==
  /\ pc = "selected"
  /\ Cardinality(SuitableIndexes) = 3
  /\ match.best.price = match.second_best.price
  /\ match.best.vram * match.best.count
       < match.second_best.vram * match.second_best.count
  /\ inventory[1] = match.second_best

\* A step in which `brev create` returns without error (login has
\* returned without error before it), and the step of the loop that
\* takes a successful result.
SuccessIsReturnedAndTaken ==
  /\ (gpc = "create" /\ gpc' \notin {"create", "catch"})
     => /\ gpc' = "ret"
        /\ result'.success
        /\ result'.workspaceName
        /\ result'.suggestion
             <=> ~("RUNNING" \in stdout' \/ "running" \in stdout')
  /\ (pc = "await" /\ gpc = "ret" /\ result.success /\ pc' # "await")
     => /\ pc' = "provision_done"
        /\ provisioningResult' = result
        /\ provisioningAttempts'[Len(provisioningAttempts')].success

\* C25: when login and create of an attempt both return without error,
\* attemptGpuProvisioning returns success = true with the workspace name,
\* with or without a running marker in the output; suggestion is set
\* exactly when there was no marker; the loop takes either result as a
\* success and leaves.
C25_CreatedIsSuccess == [][SuccessIsReturnedAndTaken]_vars

\* A finished run whose only attempt created a workspace without a
\* running marker in the output.
C25_Witness ==
  /\ pc = "done"
  /\ Len(History) = 1
  /\ History[1].success
  /\ provisioningResult.success
  /\ provisioningResult.workspaceName
  /\ provisioningResult.suggestion

\* C26: the loop stops at the first successful attempt: the history holds
\* at most one entry with success = true, it is the last entry, no
\* attempt is in flight and no selector call is made once it exists, and
\* the provisioning.success of the final result is true exactly when the
\* history holds such an entry.
C26_StopsAtFirstSuccess ==
  /\ \A i \in 1..Len(History) : History[i].success => i = Len(History)
  /\ (\E i \in 1..Len(History) : History[i].success)
     => /\ pc \in {"provision_done", "final", "done"}
        /\ events[Len(events)].type
             \in {"provisioning_success", "step_update", "complete"}
  /\ \A i \in 1..Len(events) :
       events[i].type = "provisioning_success"
       => \A j \in (i + 1)..Len(events) :
            events[j].type \notin {"provisioning_attempt", "selector_call"}
  /\ (pc = "done" /\ attemptProvisioning)
     => ( events[Len(events)].flag
          <=> \E i \in 1..Len(History) : History[i].success )

\* A finished run whose third attempt succeeded after two that were out
\* of stock.
C26_Witness ==
  /\ pc = "done"
  /\ Len(History) = 3
  /\ History[3].success
  /\ ~History[1].success /\ ~History[2].success
  /\ events[Len(events)].type = "complete"
  /\ events[Len(events)].flag

C28_HistoryMatchesCatalog ==
  \A i \in 1..Len(History) :
    LET g == getGpuByName(History[i].gpu)
    IN  /\ g # NullInstance
        /\ History[i].vram = g.vram

\* C29: a price of 0 means that the price is unknown: over the built-in
\* catalog, findBestInstance does not return a price-0 entry as best when
\* an entry with a known, positive price passes the same filters.
C29_UnknownPriceNotCheapest ==
  ( /\ pc = "selected"
    /\ inventory = BREV_GPU_CATALOG
    /\ \E i \in 1..Len(inventory) :
         isSuitable(needs, inventory[i]) /\ inventory[i].price > 0 )
  => match.best.price # 0

\* A step of the catch clause takes the class of highest precedence among
\* those whose keywords the text holds; with an out-of-stock keyword it
\* returns at once, without a refresh and without a recursive call.
HighestClassWins ==
  (gpc = "catch" /\ gpc' # "catch")
  => LET classes == KeywordClasses(errorText)
     IN  IF "out_of_stock" \in classes
           THEN /\ gpc' = "ret"
                /\ result'.errorType = "out_of_stock"
                /\ refreshCalls' = refreshCalls
                /\ depth' = depth
         ELSE IF "auth_error" \in classes
           THEN gpc' = "rf_exec" /\ rcaller' = "catch"
         ELSE IF "invalid_config" \in classes
           THEN gpc' = "ret" /\ result'.errorType = "invalid_config"
         ELSE gpc' = "ret" /\ result'.errorType = "unknown"

\* C30: the classification has the precedence out_of_stock > auth_error >
\* invalid_config > unknown: a text with keywords of several classes gets
\* the highest of them, and a text with an out-of-stock keyword and an
\* auth keyword is out_of_stock and causes neither a token refresh nor a
\* recursive retry.
C30_ClassificationPrecedence == [][HighestClassWins]_vars

\* A failure whose text holds an out-of-stock keyword and an auth keyword
\* has been returned as out_of_stock, with no refresh in the call.
C30_Witness ==
  /\ gpc = "ret"
  /\ errorText = { "not available", "expired" }
  /\ result.errorType = "out_of_stock"
  /\ refreshCalls = 0
  /\ depth = 0

============================================================================
